---- MODULE Spec2Model ----
(***************************************************************************)
(* Model of url_downloader.download_urls (src/url_downloader/__init__.py). *)
(*                                                                         *)
(* The main coroutine, the fetch tasks and their done-callbacks all run on *)
(* one asyncio event loop.  The main coroutine runs without interruption   *)
(* until an await really suspends it (a semaphore with no free permit, or  *)
(* the completion lock while it is held); fetch tasks finish and           *)
(* done-callbacks run only while the main coroutine is suspended, and the  *)
(* callbacks run in the order in which the tasks finished (call_soon).     *)
(***************************************************************************)
EXTENDS Integers, Sequences, FiniteSets, TLC

\* ---------------------------------------------------------------- bounds
MaxUrls == 3
MaxConcurrent == 3

\* ---------------------------------------------------------------- inputs
\* A URL is its host and the segments of its path ("" is an empty segment,
\* as a trailing slash leaves one).
U1 == [host |-> "h1", path |-> <<"f">>]
U2 == [host |-> "h2", path |-> <<"d", "f">>]
U3 == [host |-> "h1", path |-> <<"g", "">>]
U4 == [host |-> "h2", path |-> <<>>]
U5 == [host |-> "h1", path |-> <<"">>]
UrlUniverse == {U1, U2, U3, U4, U5}
Catalogue == <<U1, U2, U3, U4, U5>>
NoUrl == [host |-> "<unbound>", path |-> <<>>]

Bodies == {"b1", "b2"}
\* The content each URL's server holds (several URLs hold the same bytes).
Content(u) == IF u \in {U1, U4, U5} THEN "b1" ELSE "b2"
NoBody == "<nobody>"
Partial == "<partial>"
NoFile == "<absent>"
NoPath == "<nopath>"

\* The ways the fetch of each URL can fail: a timeout, a response whose status
\* is no success, another exception.  Each URL has two of them, any two
\* neighbours of the catalogue share one and any three have all.
Failures(u) ==
    IF u \in {U1, U4} THEN {"timeout", "status"}
    ELSE IF u \in {U2, U5} THEN {"status", "error"}
    ELSE {"error", "timeout"}

\* What a finished fetch task of URL u can hold: a response (whose status is
\* a success or not) or an exception.
Outcomes(u) ==
    {[kind |-> "ok", body |-> Content(u)]}
    \cup {[kind |-> k, body |-> NoBody] : k \in Failures(u)}
NoResult == [kind |-> "none", body |-> NoBody]

\* How Path.write_bytes can end: it returns, or it raises before the file
\* is created, or it raises after the file was created.
WriteResults == {"written", "fail_nofile", "fail_partial"}

VARIABLES
    urls,             \* the job's URLs
    num_concurrent,   \* the concurrency limit
    use_hashing,      \* name files by content hash
    preexisting,      \* file names in output_dir when the job starts (a
                      \* name that URLs of the job can collide with)
    pc,               \* position of the download_urls coroutine
    url,              \* the loop variable of "for url in urls"
    semaphore,        \* value of the semaphore
    lock,             \* TRUE iff the completion lock is locked
    running_tasks,    \* the tasks created so far, by URL index
    task,             \* state of each URL's fetch task
    result,           \* what each finished task holds
    ready,            \* done-callbacks scheduled on the loop, in order
    download_summary, \* the DownloadSummary
    files,            \* content of each file name of output_dir
    order,            \* URL indices in the order their callbacks ran
    cls,              \* what handle_response did for each URL
    finished          \* URL indices in the order their tasks finished

vars == <<urls, num_concurrent, use_hashing, preexisting, pc, url, semaphore,
          lock, running_tasks, task, result, ready, download_summary, files,
          order, cls, finished>>

\* ---------------------------------------------------------------- helpers
Range(s) == {s[k] : k \in DOMAIN s}

Count(s, x) == Cardinality({k \in DOMAIN s : s[k] = x})

Reverse(s) == [k \in 1..Len(s) |-> s[Len(s) + 1 - k]]

\* The runs of at most n consecutive elements of s.
Runs(s, n) ==
    {SubSeq(s, a, b) : a \in 1..(Len(s) + 1), b \in 0..Len(s)}
    \cap UNION {[1..m -> Range(s)] : m \in 0..n}

\* The URL lists of the jobs: no URL twice; runs of the catalogue, in its
\* order or in the reverse order.
UrlLists == Runs(Catalogue, MaxUrls) \cup Runs(Reverse(Catalogue), MaxUrls)

Idx == 1..Len(urls)

\* PurePath(urlparse(url).path).name: the last non-empty segment of the
\* path, or "" when there is none.
LastSegment(u) ==
    LET nonempty == SelectSeq(u.path, LAMBDA s : s # "")
    IN IF Len(nonempty) = 0 THEN "" ELSE nonempty[Len(nonempty)]

\* sha256(data).hexdigest(): a name determined by the content alone.
hash_function(data) == IF data = "b1" THEN "sha_b1" ELSE "sha_b2"

FileNames == {LastSegment(u) : u \in UrlUniverse} \cup {hash_function(b) : b \in Bodies}

\* The destination path, as the name joined to output_dir ("" is
\* output_dir itself).
DownloadPath(hashing, u, body) ==
    IF hashing THEN hash_function(body) ELSE LastSegment(u)

\* Path.exists(): output_dir exists; a file exists once created.
Exists_OnlyDirectory(fs, path) == path = ""
Exists(fs, path) == path = "" \/ fs[path] # NoFile

\* DownloadSummary.num_completed
NumCompleted_WithDuplicates(s) ==
    s.num_downloaded + s.num_duplicates + s.num_timeout + s.num_status_errors
    + s.num_unexpected_error
NumCompleted(s) ==
    s.num_downloaded + s.num_timeout + s.num_status_errors + s.num_unexpected_error

ZeroSummary ==
    [num_downloaded |-> 0, num_duplicates |-> 0, num_timeout |-> 0,
     num_status_errors |-> 0, num_unexpected_error |-> 0]

\* What handle_response did for a URL: the branch taken, the URL and path it
\* used, whether it wrote, the count its progress event reported and the
\* number of warning / error records it logged.
NoCls ==
    [branch |-> "none", url |-> NoUrl, path |-> NoPath, wrote |-> FALSE,
     progress |-> -1, warnings |-> 0]

\* Semaphore.release() and Semaphore.acquire() on the value.
SemReleased_Twice(v) == v + 2
SemReleased(v) == v + 1
SemAcquired_Noop(v) == v
SemAcquired(v) == v - 1

\* The main coroutine is suspended at an await (or gone): the loop is free
\* to run tasks and callbacks.
Suspended == pc \in {"sem_wait", "lock_wait", "returned", "cancelled"}

InFlight == {i \in Idx : task[i] = "running"}
Outstanding == {i \in Idx : task[i] \in {"running", "done"}}

\* ---------------------------------------------------------------- Init
Init ==
    /\ urls \in UrlLists
    /\ num_concurrent \in 0..MaxConcurrent
    /\ use_hashing \in BOOLEAN
    /\ preexisting \in IF use_hashing THEN {{}} ELSE {{}, {"f"}}
    /\ pc = "start"
    /\ url = NoUrl
    /\ semaphore = num_concurrent
    /\ lock = FALSE
    /\ running_tasks = <<>>
    /\ task = [i \in Idx |-> "pending"]
    /\ result = [i \in Idx |-> NoResult]
    /\ ready = <<>>
    /\ download_summary = ZeroSummary
    /\ files = [n \in FileNames |-> IF n \in preexisting THEN "old" ELSE NoFile]
    /\ order = <<>>
    /\ cls = [i \in Idx |-> NoCls]
    /\ finished = <<>>

inputs == <<urls, num_concurrent, use_hashing, preexisting>>

\* ---------------------------------------------------------------- main
\* "await lock.acquire()" before the loop: the lock is free, no suspension.
AcquireLockFirst ==
    /\ pc = "start"
    /\ lock = FALSE
    /\ lock' = TRUE
    /\ pc' = "for"
    /\ UNCHANGED <<inputs, url, semaphore, running_tasks, task, result, ready,
                   download_summary, files, order, cls, finished>>

\* "for url in urls": bind the next URL, or leave the loop.
ForNext ==
    /\ pc = "for"
    /\ IF Len(running_tasks) < Len(urls)
       THEN /\ url' = urls[Len(running_tasks) + 1]
            /\ pc' = "acquire"
       ELSE /\ url' = url
            /\ pc' = "lock_wait"
    /\ UNCHANGED <<inputs, semaphore, lock, running_tasks, task, result, ready,
                   download_summary, files, order, cls, finished>>

\* Task(http_client.get(url=url)); add_done_callback; running_tasks.append
StartTask ==
    LET i == Len(running_tasks) + 1
    IN /\ semaphore' = SemAcquired(semaphore)
       /\ task' = [task EXCEPT ![i] = "running"]
       /\ running_tasks' = Append(running_tasks, i)
       /\ pc' = "for"

\* "await semaphore.acquire()" with a free permit: no suspension.
AcquireSemaphore ==
    /\ pc = "acquire"
    /\ semaphore > 0
    /\ StartTask
    /\ UNCHANGED <<inputs, url, lock, result, ready, download_summary, files,
                   order, cls, finished>>

\* "await semaphore.acquire()" with no free permit: the coroutine suspends.
BlockOnSemaphore ==
    /\ pc = "acquire"
    /\ semaphore <= 0
    /\ pc' = "sem_wait"
    /\ UNCHANGED <<inputs, url, semaphore, lock, running_tasks, task, result,
                   ready, download_summary, files, order, cls, finished>>

\* The suspended acquire resumes once a release made a permit available.
ResumeSemaphore ==
    /\ pc = "sem_wait"
    /\ semaphore > 0
    /\ StartTask
    /\ UNCHANGED <<inputs, url, lock, result, ready, download_summary, files,
                   order, cls, finished>>

\* "await lock.acquire()" after the loop returns once the lock was released;
\* then "return download_summary".
Return ==
    /\ pc = "lock_wait"
    /\ lock = FALSE
    /\ lock' = TRUE
    /\ pc' = "returned"
    /\ UNCHANGED <<inputs, url, semaphore, running_tasks, task, result, ready,
                   download_summary, files, order, cls, finished>>

\* An external cancellation reaches the coroutine at the await it is
\* suspended in and propagates out of download_urls.
Interrupt ==
    /\ pc \in {"sem_wait", "lock_wait"}
    /\ pc' = "cancelled"
    /\ UNCHANGED <<inputs, url, semaphore, lock, running_tasks, task, result,
                   ready, download_summary, files, order, cls, finished>>

\* ---------------------------------------------------------------- tasks
\* The loop schedules the done-callbacks of a finished task (call_soon):
\* the one callback add_done_callback registered.
ScheduleCallbacks_Twice(q, i) == Append(Append(q, i), i)
ScheduleCallbacks_Front(q, i) == <<i>> \o q
ScheduleCallbacks(q, i) == Append(q, i)

\* A fetch task finishes with an outcome; its done-callback is scheduled.
FetchComplete(i, out) ==
    /\ Suspended
    /\ task[i] = "running"
    /\ task' = [task EXCEPT ![i] = "done"]
    /\ result' = [result EXCEPT ![i] = out]
    /\ ready' = ScheduleCallbacks(ready, i)
    /\ finished' = Append(finished, i)
    /\ UNCHANGED <<inputs, pc, url, semaphore, lock, running_tasks,
                   download_summary, files, order, cls>>

\* ---------------------------------------------------------------- callbacks
Inc_Two(s, field) == [s EXCEPT ![field] = @ + 2]
Inc(s, field) == [s EXCEPT ![field] = @ + 1]

\* Path.write_bytes(data) when it returns: the file holds exactly data.
WriteBytes_Truncated(fs, path, data) == [fs EXCEPT ![path] = Partial]
WriteBytes(fs, path, data) == [fs EXCEPT ![path] = data]

\* handle_response(finished_task): res is what the finished task holds, u the
\* value the enclosing scope's variable "url" has when the callback runs, fs
\* the files of output_dir, s the summary, wr how write_bytes would end.
\* "raised" tells that an exception left handle_response.  The progress
\* event is logged first, with the num_completed of that moment.
handle_response(res, u, hashing, fs, s, wr) ==
    IF res.kind = "timeout" THEN
        [summary |-> Inc(s, "num_timeout"), files |-> fs, raised |-> FALSE,
         cls |-> [branch |-> "timeout", url |-> u, path |-> NoPath, wrote |-> FALSE,
                  progress |-> NumCompleted(s), warnings |-> 1]]
    ELSE IF res.kind = "status" THEN
        [summary |-> Inc(s, "num_status_errors"), files |-> fs, raised |-> FALSE,
         cls |-> [branch |-> "status", url |-> NoUrl, path |-> NoPath, wrote |-> FALSE,
                  progress |-> NumCompleted(s), warnings |-> 1]]
    ELSE IF res.kind # "ok" THEN
        [summary |-> Inc(s, "num_unexpected_error"), files |-> fs, raised |-> FALSE,
         cls |-> [branch |-> "error", url |-> u, path |-> NoPath, wrote |-> FALSE,
                  progress |-> NumCompleted(s), warnings |-> 1]]
    ELSE
        LET download_path == DownloadPath(hashing, u, res.body)
        IN IF Exists(fs, download_path) THEN
               [summary |-> Inc(Inc(s, "num_duplicates"), "num_downloaded"),
                files |-> fs, raised |-> FALSE,
                cls |-> [branch |-> "duplicate", url |-> u,
                         path |-> download_path, wrote |-> FALSE,
                         progress |-> NumCompleted(s), warnings |-> 1]]
           ELSE IF wr = "written" THEN
               [summary |-> Inc(s, "num_downloaded"),
                files |-> WriteBytes(fs, download_path, res.body),
                raised |-> FALSE,
                cls |-> [branch |-> "written", url |-> u,
                         path |-> download_path, wrote |-> TRUE,
                         progress |-> NumCompleted(s), warnings |-> 0]]
           ELSE
               [summary |-> s,
                files |-> IF wr = "fail_partial"
                          THEN [fs EXCEPT ![download_path] = Partial]
                          ELSE fs,
                raised |-> TRUE,
                cls |-> [branch |-> "write_failed", url |-> u,
                         path |-> download_path, wrote |-> FALSE,
                         progress |-> NumCompleted(s), warnings |-> 0]]

\* The test of callback(): "download_summary.num_completed == num_total_urls".
AllCompleted_OneEarly(s, num_total_urls) == NumCompleted(s) >= num_total_urls - 1
AllCompleted_Always(s, num_total_urls) == TRUE
AllCompleted(s, num_total_urls) == NumCompleted(s) = num_total_urls

\* callback(finished_task) of the task at the head of the loop's queue:
\* semaphore.release(); handle_response(...); lock.release() when all
\* completed.  An exception of handle_response ends the callback there.
Callback(wr) ==
    /\ Suspended
    /\ ready # <<>>
    /\ LET i == Head(ready)
           h == handle_response(result[i], url, use_hashing, files,
                                download_summary, wr)
       IN /\ semaphore' = SemReleased(semaphore)
          /\ download_summary' = h.summary
          /\ files' = h.files
          /\ cls' = [cls EXCEPT ![i] = h.cls]
          /\ lock' = IF ~h.raised /\ AllCompleted(h.summary, Len(urls))
                     THEN FALSE
                     ELSE lock
          /\ task' = [task EXCEPT ![i] = "handled"]
          /\ order' = Append(order, i)
          /\ ready' = Tail(ready)
    /\ UNCHANGED <<inputs, pc, url, running_tasks, result, finished>>

\* ---------------------------------------------------------------- spec
MainNext ==
    \/ AcquireLockFirst
    \/ ForNext
    \/ AcquireSemaphore
    \/ BlockOnSemaphore
    \/ ResumeSemaphore
    \/ Return

\* What the caller awaiting download_urls has got: the summary of the
\* "return download_summary", or the CancelledError that left the coroutine.
CallerGot ==
    IF pc = "returned" THEN "summary"
    ELSE IF pc = "cancelled" THEN "CancelledError"
    ELSE "nothing"

Next ==
    \/ MainNext
    \/ Interrupt
    \/ \E i \in Idx : \E out \in Outcomes(urls[i]) : FetchComplete(i, out)
    \/ \E wr \in WriteResults : Callback(wr)

Spec == Init /\ [][Next]_vars

TypeOK ==
    /\ pc \in {"start", "for", "acquire", "sem_wait", "lock_wait", "returned", "cancelled"}
    /\ semaphore \in 0..(MaxConcurrent + MaxUrls + 1)
    /\ lock \in BOOLEAN
    /\ \A i \in Idx : task[i] \in {"pending", "running", "done", "handled"}

\* ---------------------------------------------------------------- claims
\* C1: with num_concurrent >= 1, the fetches started and not yet completed
\* are at most num_concurrent, and so are the fetches whose slot has not
\* been released yet (a fetch is started only on a released slot).
C1_BoundedInFlight ==
    num_concurrent >= 1 =>
        /\ Cardinality(InFlight) <= num_concurrent
        /\ Cardinality(Outstanding) <= num_concurrent

\* The job is blocked at full capacity with a URL still to start.
C1_Witness ==
    /\ num_concurrent = 2
    /\ Len(urls) = 3
    /\ pc = "sem_wait"
    /\ Cardinality(InFlight) = 2
    /\ task[3] = "pending"

\* C2: when download_urls has returned, the four completion counters sum up
\* to len(urls).
C2_CompletedAll ==
    pc = "returned" =>
        download_summary.num_downloaded + download_summary.num_timeout
        + download_summary.num_status_errors
        + download_summary.num_unexpected_error = Len(urls)

\* A job of three URLs returned after a duplicate, a timeout and a status
\* error.
C2_Witness ==
    /\ pc = "returned"
    /\ Len(urls) = 3
    /\ download_summary.num_duplicates = 1
    /\ download_summary.num_timeout = 1
    /\ download_summary.num_status_errors = 1

\* C3: a job with no URL completes at once: until it has returned its
\* all-zero summary, the coroutine can always take its next step by itself.
C3_EmptyJobCompletes ==
    Len(urls) = 0 =>
        \/ ENABLED MainNext
        \/ pc = "returned" /\ download_summary = ZeroSummary

\* The file name URL i's own outcome is to be saved under.
OwnPath(i) == DownloadPath(use_hashing, urls[i], Content(urls[i]))

\* C4: handle_response uses the URL whose fetch produced the outcome: the
\* timeout / unexpected-error message names that URL, and without hashing
\* the destination is the last path segment of that URL.
C4_OriginatingUrl ==
    \A i \in Idx :
        /\ cls[i].branch \in {"timeout", "error"} => cls[i].url = urls[i]
        /\ (~use_hashing /\ cls[i].branch \in {"written", "duplicate", "write_failed"})
               => cls[i].path = LastSegment(urls[i])

AllSucceeded == \A i \in Idx : result[i].kind = "ok"

FilesOnDisk == {n \in FileNames : files[n] # NoFile}

\* C5: URLs with pairwise-distinct last path segments, all fetched with
\* success, hashing off, output_dir empty at the start: on return
\* num_downloaded = len(urls), num_duplicates = 0 and each URL's file holds
\* that URL's response body.
C5_DistinctAllSaved ==
    ( /\ pc = "returned"
      /\ ~use_hashing
      /\ preexisting = {}
      /\ AllSucceeded
      /\ \A i \in Idx : LastSegment(urls[i]) # ""
      /\ \A i, j \in Idx : LastSegment(urls[i]) = LastSegment(urls[j]) => i = j )
    => /\ download_summary.num_downloaded = Len(urls)
       /\ download_summary.num_duplicates = 0
       /\ \A i \in Idx : files[LastSegment(urls[i])] = result[i].body

\* A job of two URLs whose successful responses map to the same destination
\* file name, run to its return in an empty output_dir.
C6_Case ==
    /\ pc = "returned"
    /\ Len(urls) = 2
    /\ preexisting = {}
    /\ AllSucceeded
    /\ OwnPath(1) = OwnPath(2)

\* One write, one duplicate, and the one file holds the content of the
\* response that completed first.
C6_Outcome ==
    /\ Cardinality({i \in Idx : cls[i].wrote}) = 1
    /\ download_summary.num_duplicates = 1
    /\ download_summary.num_downloaded = 2
    /\ FilesOnDisk = {OwnPath(1)}
    /\ files[OwnPath(1)] = result[order[1]].body

\* C6 as stated: two URLs mapping to the same destination file name give
\* one write, num_duplicates = 1, num_downloaded = 2 and a single file with
\* the first-completing content, in every completion order.
C6_Original == C6_Case => C6_Outcome

\* C6 as amended: the same, for two URLs mapping to the same non-empty
\* destination file name.
C6_SameNameOneWrite == (C6_Case /\ OwnPath(1) # "") => C6_Outcome

\* The second URL of two same-named ones completed first and was written.
C6_Witness ==
    /\ C6_Case
    /\ OwnPath(1) # ""
    /\ order = <<2, 1>>
    /\ cls[2].wrote

\* The step is the classification of URL i's successful response.
ClassifiesSuccess(i) ==
    /\ task[i] = "done"
    /\ task'[i] = "handled"
    /\ result[i].kind = "ok"

\* C7: classifying a success whose destination exists adds one to
\* num_duplicates and to num_downloaded and leaves the files alone; when the
\* destination does not exist and the write ends well, the file holds the
\* whole body and only num_downloaded grows by one.
C7_SuccessEffect ==
    [][\A i \in Idx : ClassifiesSuccess(i) =>
          IF Exists(files, cls'[i].path)
          THEN /\ download_summary' =
                    [download_summary EXCEPT !.num_duplicates = @ + 1,
                                             !.num_downloaded = @ + 1]
               /\ files' = files
          ELSE cls'[i].branch = "written" =>
               /\ download_summary' =
                    [download_summary EXCEPT !.num_downloaded = @ + 1]
               /\ files' = [files EXCEPT ![cls'[i].path] = result[i].body]
      ]_vars

\* A response was found to duplicate the file that was there before the
\* job, which still has its content, and another response was written.
C7_Witness ==
    \E i, j \in Idx :
        /\ cls[i].branch = "duplicate"
        /\ cls[i].path = "f"
        /\ files["f"] = "old"
        /\ cls[j].branch = "written"
        /\ files[cls[j].path] = result[j].body

\* C8: every URL is fetched at most once and classified at most once, also
\* after an interrupt; when the job has returned, exactly once each.
C8_ExactlyOnce ==
    \A i \in Idx :
        /\ Count(running_tasks, i) <= 1
        /\ Count(order, i) <= 1
        /\ pc = "returned" => Count(running_tasks, i) = 1 /\ Count(order, i) = 1

\* An interrupted job: outcomes were classified, one URL was never fetched.
C8_Witness ==
    /\ pc = "cancelled"
    /\ Len(urls) = 3
    /\ Len(order) = 2
    /\ task[3] = "pending"

\* C9: when download_urls has returned, every URL's task has been handled,
\* its outcome classified, and each written payload is on disk.
C9_ReturnAfterAll ==
    pc = "returned" =>
        \A i \in Idx :
            /\ task[i] = "handled"
            /\ cls[i].branch \in {"timeout", "status", "error", "duplicate", "written"}
            /\ cls[i].wrote => files[cls[i].path] = result[i].body

\* A job of three URLs returned, the last classified outcome being a write.
C9_Witness ==
    /\ pc = "returned"
    /\ Len(urls) = 3
    /\ Len(order) = 3
    /\ cls[order[3]].wrote

\* C10: a failing write of a successful payload is classified as an
\* unexpected error: num_unexpected_error grows by one and num_downloaded
\* does not grow.
C10_WriteFailureCounted ==
    [][\A i \in Idx :
          (ClassifiesSuccess(i) /\ cls'[i].branch = "write_failed") =>
              /\ download_summary'.num_unexpected_error
                     = download_summary.num_unexpected_error + 1
              /\ download_summary'.num_downloaded = download_summary.num_downloaded
      ]_vars

\* The steps of the job itself: the coroutine, the fetch tasks finishing and
\* the done-callbacks, without the external interrupt.
JobNext ==
    \/ MainNext
    \/ \E i \in Idx : \E out \in Outcomes(urls[i]) : FetchComplete(i, out)
    \/ \E wr \in WriteResults : Callback(wr)

\* C11: per-URL errors are not fatal: a job with URLs and num_concurrent >= 1
\* that has neither returned nor been interrupted can always go on (a fetch
\* can finish, a callback can run or the coroutine can step), so that it
\* returns when every fetch produces its outcome.
C11_ErrorsNonFatal ==
    (Len(urls) > 0 /\ num_concurrent >= 1 /\ pc \notin {"returned", "cancelled"})
        => ENABLED JobNext

\* C12: an interrupt that reaches the waiting job, outcomes being classified
\* already, makes download_urls hand the summary accumulated so far to its
\* caller, and after it no fetch is admitted and the coroutine does not wait
\* any more.
C12_InterruptReturnsSummary ==
    [][ /\ (Interrupt /\ Len(order) > 0) => CallerGot' = "summary"
        /\ pc = "cancelled" => pc' = pc /\ running_tasks' = running_tasks
      ]_vars

\* C13: with num_concurrent < 1 and URLs to fetch the job unwinds instead of
\* blocking: no fetch is admitted and, until it has ended, the coroutine is
\* never left waiting.
C13_InvalidLimitUnwinds ==
    (num_concurrent < 1 /\ Len(urls) > 0)
        => /\ running_tasks = <<>>
           /\ pc \in {"returned", "cancelled"} \/ ENABLED MainNext

\* The outcomes among the first k classified that the summary counts.
Counted(k) == {j \in 1..k : cls[order[j]].branch # "write_failed"}

\* C14: the progress event of each handled outcome reports a completed count
\* that includes that outcome, so the counts grow by one from event to event
\* and the last event of a returned job reports len(urls).
C14_ProgressIncludesOutcome ==
    /\ \A k \in 1..Len(order) :
           cls[order[k]].branch # "write_failed"
               => cls[order[k]].progress = Cardinality(Counted(k))
    /\ (pc = "returned" /\ Len(urls) > 0)
           => cls[order[Len(order)]].progress = Len(urls)

\* The counter of each kind of failure.
CounterOf(kind) ==
    IF kind = "timeout" THEN "num_timeout"
    ELSE IF kind = "status" THEN "num_status_errors"
    ELSE "num_unexpected_error"

\* C15: classifying a timeout, a status failure or an unexpected error adds
\* one to its own counter, leaves the other counters and the files alone and
\* logs one warning / error record.
C15_FailureEffect ==
    [][\A i \in Idx :
          ( /\ task[i] = "done"
            /\ task'[i] = "handled"
            /\ result[i].kind \in {"timeout", "status", "error"} )
          => /\ download_summary' =
                  [download_summary EXCEPT ![CounterOf(result[i].kind)] = @ + 1]
             /\ files' = files
             /\ ~cls'[i].wrote
             /\ cls'[i].warnings = 1
      ]_vars

\* A timeout, a status failure and an unexpected error were classified and
\* output_dir is as it was before the job.
C15_Witness ==
    /\ Len(order) = 3
    /\ download_summary.num_timeout = 1
    /\ download_summary.num_status_errors = 1
    /\ download_summary.num_unexpected_error = 1
    /\ FilesOnDisk = preexisting

\* C16: the outcomes are classified in the order in which their fetches
\* finished: the classified URLs are the first of the finished ones, in the
\* same order.
C16_CompletionOrder ==
    /\ Len(order) <= Len(finished)
    /\ order = SubSeq(finished, 1, Len(order))

\* The URL submitted first was classified last, after the two submitted
\* later.
C16_Witness ==
    /\ Len(urls) = 3
    /\ finished = <<2, 3, 1>>
    /\ order = <<2, 3, 1>>

\* C17: with num_concurrent >= 1, the free permits plus the started fetches
\* whose done-callback has not run make num_concurrent, and the free permits
\* never exceed num_concurrent.
C17_PermitBalance ==
    num_concurrent >= 1 =>
        /\ semaphore + Cardinality(Outstanding) = num_concurrent
        /\ semaphore <= num_concurrent

\* A permit came back from a callback while another fetch is outstanding.
C17_Witness ==
    /\ num_concurrent = 2
    /\ semaphore = 1
    /\ Cardinality(Outstanding) = 1
    /\ Len(order) = 2

\* The step is a done-callback that goes on to lock.release().
ReleasesLock ==
    /\ order' # order
    /\ download_summary' # download_summary
    /\ NumCompleted(download_summary') = Len(urls)

\* C18: the completion lock is unlocked only by the done-callback that
\* brings num_completed to len(urls), which happens once as num_completed
\* only grows, and a done-callback that releases the lock finds it locked.
C18_LockReleasedOnce ==
    [][ /\ (lock /\ ~lock') =>
               /\ ReleasesLock
               /\ NumCompleted(download_summary) < Len(urls)
        /\ ReleasesLock => lock /\ ~lock'
        /\ NumCompleted(download_summary') >= NumCompleted(download_summary)
      ]_vars

\* The last of three callbacks has released the lock and the coroutine has
\* not resumed yet.
C18_Witness ==
    /\ Len(urls) = 3
    /\ Len(order) = 3
    /\ pc = "lock_wait"
    /\ ~lock

\* C19: between done-callbacks num_duplicates <= num_downloaded, num_completed
\* is the number of outcomes classified so far, which is at most the number
\* of fetches started and at most len(urls), and no counter decreases.
C19_CounterInvariants ==
    [][ /\ download_summary'.num_duplicates <= download_summary'.num_downloaded
        /\ NumCompleted(download_summary') = Len(order')
        /\ Len(order') <= Len(running_tasks')
        /\ Len(order') <= Len(urls)
        /\ \A f \in DOMAIN download_summary :
               download_summary'[f] >= download_summary[f]
      ]_vars

====
